---- MODULE Spec2Model ----
(***************************************************************************)
(* The tracking-session subsystem of unilogger: the TrackingManager        *)
(* singleton (logger.py), the TrackingHandler log bridge (logger.py), the  *)
(* Run object (pck67_pkg/run.py) and the TrackingClient transport          *)
(* (pck67_pkg/client.py), run against a tracking server that keeps teams,  *)
(* projects, runs and metric records.                                      *)
(***************************************************************************)
EXTENDS Integers, Sequences, FiniteSets, TLC

(* ------------------------------ bounds --------------------------------- *)
\* initialize_client calls that reach the try block
MaxCalls == 2
\* runs a caller opens before it works with them
MaxRuns == 2
\* TrackingHandler objects a direct setup_tracking_logger call may add to
MaxHandlers == 2
\* largest step a handler or a caller uses
MaxStep == 2
\* log requests (bridge emissions, Run.log_metric, Run.log_message) recorded
MaxLog == 3

(* ------------------------------ values --------------------------------- *)
\* Python None where an id or a number is expected
None == 0
\* Python None where a string is expected
NoneStr == "None"

TeamNames == {"A", "B"}
ProjectNames == {"P", "Q"}
\* the api_key argument: omitted (None), the empty string, or a key
KeyArgs == {NoneStr, "", "k"}
\* os.getenv("TRACKING_API_KEY"): unset, empty, or a key
EnvValues == {NoneStr, "", "e"}
\* the step arguments a caller of Run.log_metric / Run.log_message passes
Steps == 0..MaxStep

\* dict.get(key): None when the key is absent
Get(d, key) == IF key \in DOMAIN d THEN d[key] ELSE None

\* Python truthiness of an Optional[str]: `not x`
Falsy(x) == x = NoneStr \/ x = ""

VARIABLES
  env,          \* os.environ["TRACKING_API_KEY"]
  teams,        \* server: the team list, in the order GET /teams returns it
  projects,     \* server: all projects, in creation order
  server_runs,  \* server: run records, server_runs[i].id = i
  mgr,          \* the TrackingManager singleton's fields
  runs,         \* the local Run objects, by identity (index)
  handlers,     \* the TrackingHandler objects, by identity (index)
  loggers,      \* logging.getLogger(name).handlers, tracking handlers only
  log,          \* every log request attempted, in order
  resolved,     \* per name, the id the latest completed resolution yielded
  calls,        \* initialize_client calls that reached the try block
  wrapper,      \* the wrapper (decorator, context manager) the program is in
  sess,         \* per concurrent process, where its resolution stands
  last          \* the most recent operation: what it issued and how it ended

vars == <<env, teams, projects, server_runs, mgr, runs, handlers, loggers,
          log, resolved, calls, wrapper, sess, last>>

(* --------------------------- the server -------------------------------- *)
\* GET /teams
ListTeams(ts) == ts

\* POST /teams: the record the server stores and returns
CreateTeam(ts, name) == [id |-> Len(ts) + 1, name |-> name]

\* GET /teams/{team_id}/projects
ListProjects(ps, team_id) == SelectSeq(ps, LAMBDA p : p.team_id = team_id)

\* POST /teams/{team_id}/projects
CreateProject(ps, team_id, name) ==
  [id |-> Len(ps) + 1, name |-> name, team_id |-> team_id]

\* POST /projects/{project_id}/runs/init
InitRunRecord(rs, project_id) ==
  [id |-> Len(rs) + 1, project_id |-> project_id, status |-> "running",
   runtime_seconds |-> None, finished_at |-> None]

\* the runtime the server computes for a finished run
ServerRuntime == 12

\* the time the server stamps on a finished run
ServerFinishedAt == 30

\* POST /runs/{run_id}/finish, answered 2xx: the stored record afterwards
FinishRecord(rec) ==
  [rec EXCEPT !.status = "finished",
              !.runtime_seconds =
                 IF rec.runtime_seconds = None THEN ServerRuntime ELSE @,
              !.finished_at =
                 IF rec.finished_at = None THEN ServerFinishedAt ELSE @]

\* the 2xx bodies the finish endpoint answers with
FinishBodies ==
  { [message |-> "Run finished"],
    [message |-> "Run finished", runtime_seconds |-> ServerRuntime] }

(* --------------------------- requests ---------------------------------- *)
\* one HTTP request as TrackingClient._request issues it
Req(call, key, arg) == [call |-> call, key |-> key, arg |-> arg]

Calls(reqs) == { reqs[i].call : i \in DOMAIN reqs }

\* the record of an operation: its name, the object it acted on (a Run or a
\* handler index), its string arguments, how it returned ("return", "return_none",
\* "raise"), the exception involved, the Run's status before it, the requests
\* issued and the body of the 2xx answer it used
Op(op, obj, names, ret, err, pre, reqs, resp) ==
  [op |-> op, obj |-> obj, names |-> names, ret |-> ret, err |-> err,
   pre |-> pre, reqs |-> reqs, resp |-> resp]

\* no response body to speak of
NoBody == [message |-> NoneStr]

\* POST /runs/{id}/log as log_metric / log_message issue it
LogReq(key, run_id, name, step) ==
  [call |-> "log", key |-> key, arg |-> run_id, name |-> name, step |-> step]

(* --------------------------- Run (run.py) ------------------------------ *)
\* Run.__init__
Run(client, run_data) ==
  [client |-> client,
   id |-> Get(run_data, "id"),
   status |-> IF "status" \in DOMAIN run_data THEN run_data.status ELSE NoneStr,
   project_id |-> Get(run_data, "project_id"),
   finished_at |-> Get(run_data, "finished_at"),
   runtime_seconds |-> Get(run_data, "runtime_seconds")]

(* ------------------- TrackingManager.initialize_client ------------------ *)
\* the loop `for x in xs: if x['name'] == name: ...; break`: first match, 0 if none
FirstMatch(xs, name) ==
  IF \E i \in DOMAIN xs : xs[i].name = name
  THEN CHOOSE i \in DOMAIN xs :
         /\ xs[i].name = name
         /\ \A j \in DOMAIN xs : xs[j].name = name => i <= j
  ELSE 0

\* a resolver that creates without looking at the result of the scan
NeedsCreateAlways(idx) == TRUE

\* `if not team_found` / `if not project_found`
NeedsCreate(idx) == idx = 0

\* `if api_key is None: api_key = os.getenv(...); if not api_key: raise`
MissingCredential(api_key, environ) == api_key = NoneStr /\ Falsy(environ)

\* the key TrackingClient is constructed with
Credential(api_key, environ) == IF api_key = NoneStr THEN environ ELSE api_key

\* a resolver that scopes the project to the team cached before the call
ProjectScopeCached(cached_team_id, team_id) == cached_team_id

\* the team whose projects are listed and in which a project is created:
\* self.team_id as just assigned, not the value cached by an earlier call
ProjectScope(cached_team_id, team_id) == team_id

\* f"{project_name.lower().replace(' ', '_')}_logger"
LoggerName(project_name) ==
  IF project_name = "P" THEN "p_logger" ELSE "q_logger"

LoggerNames == { LoggerName(p) : p \in ProjectNames } \cup {"tracking"}

\* the names a direct setup_tracking_logger call passes: its default, and the
\* name initialize_client uses for project "P"
SetupNames == {"tracking", LoggerName("P")}

\* TrackingHandler.__init__
TrackingHandler(client, run_id) ==
  [client |-> client, run_id |-> run_id, step_counter |-> 0]

\* setup_tracking_logger: logger.handlers.clear(), then addHandler(tracking_handler)
\* (the console StreamHandler it may add sends nothing to the client)
AttachHandler(lgs, name, h) == [lgs EXCEPT ![name] = <<h>>]

\* no wrapper entered yet
NoWrapper == [kind |-> "none", pc |-> "idle", logger |-> NoneStr]

\* the processes that may use the library against one server at a time
Sessions == {1, 2}

\* a process that has not called initialize_client yet
IdleSession ==
  [pc |-> "idle", team_name |-> NoneStr, project_name |-> NoneStr,
   team_found |-> FALSE, team_id |-> None,
   project_found |-> FALSE, project_id |-> None]

FailPoints ==
  {"none", "list_teams", "create_team", "list_projects", "create_project",
   "init_run", "setup_logger"}

Init ==
  /\ env \in EnvValues
  /\ teams = <<>>
  /\ projects = <<>>
  /\ server_runs = <<>>
  /\ mgr = [client |-> NoneStr, team_id |-> None, project_id |-> None,
            run |-> None, logger |-> NoneStr]
  /\ runs = <<>>
  /\ handlers = <<>>
  /\ loggers = [n \in LoggerNames |-> <<>>]
  /\ log = <<>>
  /\ resolved = [team |-> [t \in TeamNames |-> None],
                 project |-> [tp \in TeamNames \X ProjectNames |-> None]]
  /\ calls = 0
  /\ wrapper = NoWrapper
  /\ sess = [p \in Sessions |-> IdleSession]
  /\ last = Op("new", None, <<>>, "return", "none", NoneStr, <<>>, NoBody)

\* a manager that keeps the run it already caches
ManagerAfterKeepsRun(m, key, okTeam, team_id, okProject, project_id, okRun, run, okLogger, logger) ==
  [client |-> key,
   team_id |-> IF okTeam THEN team_id ELSE m.team_id,
   project_id |-> IF okProject THEN project_id ELSE m.project_id,
   run |-> IF okRun /\ m.run = None THEN run ELSE m.run,
   logger |-> IF okLogger THEN logger ELSE m.logger]

\* the TrackingManager fields after the call, given how far it got
ManagerAfter(m, key, okTeam, team_id, okProject, project_id, okRun, run, okLogger, logger) ==
  [client |-> key,
   team_id |-> IF okTeam THEN team_id ELSE m.team_id,
   project_id |-> IF okProject THEN project_id ELSE m.project_id,
   run |-> IF okRun THEN run ELSE m.run,
   logger |-> IF okLogger THEN logger ELSE m.logger]

\* initialize_client finds no credential: ValueError, raised before the try
InitializeNoCredential(api_key, team_name, project_name) ==
  /\ MissingCredential(api_key, env)
  /\ last' = Op("initialize_client", None, <<api_key, team_name, project_name>>,
                "raise", "ValueError", NoneStr, <<>>, NoBody)
  /\ UNCHANGED <<env, teams, projects, server_runs, mgr, runs, handlers,
                 loggers, log, resolved, calls, sess>>

\* initialize_client with a credential: the try block, `fail` naming the
\* statement that raises (a request answered non-2xx, or the logger setup)
InitializeWithCredential(api_key, team_name, project_name, fail) ==
  LET key       == Credential(api_key, env)
      tIdx      == FirstMatch(ListTeams(teams), team_name)
      tCreate   == NeedsCreate(tIdx)
      okList    == fail # "list_teams"
      okTeam    == okList /\ (~tCreate \/ fail # "create_team")
      newTeam   == CreateTeam(teams, team_name)
      team_id   == IF tCreate THEN newTeam.id ELSE ListTeams(teams)[tIdx].id
      teams1    == IF okTeam /\ tCreate THEN Append(teams, newTeam) ELSE teams
      scope     == ProjectScope(mgr.team_id, team_id)
      plist     == ListProjects(projects, scope)
      okPList   == okTeam /\ fail # "list_projects"
      pIdx      == FirstMatch(plist, project_name)
      pCreate   == NeedsCreate(pIdx)
      okProject == okPList /\ (~pCreate \/ fail # "create_project")
      newProj   == CreateProject(projects, scope, project_name)
      project_id == IF pCreate THEN newProj.id ELSE plist[pIdx].id
      projects1 == IF okProject /\ pCreate THEN Append(projects, newProj)
                   ELSE projects
      okRun     == okProject /\ fail # "init_run"
      record    == InitRunRecord(server_runs, project_id)
      okLogger  == okRun /\ fail # "setup_logger"
      name      == LoggerName(project_name)
      reqs      == <<Req("list_teams", key, None)>>
                   \o (IF okList /\ tCreate
                       THEN <<Req("create_team", key, None)>> ELSE <<>>)
                   \o (IF okTeam
                       THEN <<Req("list_projects", key, scope)>> ELSE <<>>)
                   \o (IF okPList /\ pCreate
                       THEN <<Req("create_project", key, scope)>> ELSE <<>>)
                   \o (IF okProject
                       THEN <<Req("init_run", key, project_id)>> ELSE <<>>)
  IN
  /\ ~MissingCredential(api_key, env)
  \* the statement named by `fail` is one the call executes
  /\ fail = "create_team" => tCreate
  /\ fail = "create_project" => pCreate
  /\ calls < MaxCalls
  /\ calls' = calls + 1
  /\ teams' = teams1
  /\ projects' = projects1
  /\ server_runs' = IF okRun THEN Append(server_runs, record) ELSE server_runs
  /\ runs' = IF okRun THEN Append(runs, Run(key, record)) ELSE runs
  /\ handlers' = IF okLogger
                 THEN Append(handlers, TrackingHandler(key, record.id))
                 ELSE handlers
  /\ loggers' = IF okLogger
                THEN AttachHandler(loggers, name, Len(handlers) + 1)
                ELSE loggers
  /\ mgr' = ManagerAfter(mgr, key, okTeam, team_id, okProject, project_id,
                         okRun, Len(runs) + 1, okLogger, name)
  /\ resolved' =
       [team |-> IF okTeam
                 THEN [resolved.team EXCEPT ![team_name] = team_id]
                 ELSE resolved.team,
        project |-> IF okProject
                    THEN [resolved.project EXCEPT
                            ![<<team_name, project_name>>] = project_id]
                    ELSE resolved.project]
  /\ last' = Op("initialize_client", IF okRun THEN Len(runs) + 1 ELSE None,
                <<api_key, team_name, project_name>>,
                IF fail = "none" THEN "return" ELSE "return_none",
                IF fail = "none" THEN "none"
                ELSE IF fail = "setup_logger" THEN "Exception"
                ELSE "TransportError",
                NoneStr, reqs, NoBody)
  /\ UNCHANGED <<env, log, sess>>

\* the program calls initialize_client itself, outside any wrapper
InitializeClient ==
  /\ UNCHANGED wrapper
  /\ \E api_key \in KeyArgs, team_name \in TeamNames, project_name \in ProjectNames :
        \/ InitializeNoCredential(api_key, team_name, project_name)
        \/ \E fail \in FailPoints :
              InitializeWithCredential(api_key, team_name, project_name, fail)

Next == InitializeClient

Spec == Init /\ [][Next]_vars

(* --------------------------- Run operations ----------------------------- *)
\* two metric values a program passes to log_metric
MetricLow == 1
MetricHigh == 5

\* a caller opens a session, passing its key and the same names every time,
\* and every request is answered
OpenRun ==
  /\ Len(runs) < MaxRuns
  /\ UNCHANGED wrapper
  /\ InitializeWithCredential("k", "A", "P", "none")

\* a finish that caches the runtime and forgets to mirror the status
FinishedRunKeepsStatus(run, response) ==
  [run EXCEPT !.runtime_seconds = Get(response, "runtime_seconds")]

\* a finish that mirrors the status and does not cache the runtime
FinishedRunKeepsRuntime(run, response) ==
  [run EXCEPT !.status = "finished"]

\* Run.finish after finish_run returned `response`
FinishedRun(run, response) ==
  [run EXCEPT !.status = "finished",
              !.runtime_seconds = Get(response, "runtime_seconds")]

\* a finish that swallows the failure of its request
FinishOnErrorSwallowed(run) == "return"

\* how Run.finish ends when _request raises: nothing catches it
FinishOnError(run) == "raise"

\* a finish that marks the Run finished before it sends the request
FailedFinishMarked(run) == [run EXCEPT !.status = "finished"]

\* the Run after finish_run raised: the raise at `response = ...` skips both
\* assignments
FailedFinish(run) == run

\* Run.finish, the finish request answered 2xx with `body`
FinishAccepted(r, body) ==
  /\ r \in DOMAIN runs
  /\ server_runs' = [server_runs EXCEPT ![runs[r].id] = FinishRecord(@)]
  /\ runs' = [runs EXCEPT ![r] = FinishedRun(@, body)]
  /\ last' = Op("finish", r, <<>>, "return", "none", runs[r].status,
                <<Req("finish_run", runs[r].client, runs[r].id)>>, body)
  /\ UNCHANGED <<wrapper, sess, env, teams, projects, mgr, handlers, loggers, log, resolved,
                 calls>>

\* Run.finish, the finish request answered non-2xx (or the network failing):
\* raise_for_status raises and neither assignment is reached
FinishRejected(r) ==
  /\ r \in DOMAIN runs
  /\ runs' = [runs EXCEPT ![r] = FailedFinish(@)]
  /\ last' = Op("finish", r, <<>>, FinishOnError(runs[r]), "TransportError",
                runs[r].status,
                <<Req("finish_run", runs[r].client, runs[r].id)>>, NoBody)
  /\ UNCHANGED <<wrapper, sess, env, teams, projects, server_runs, mgr, handlers,
                 loggers, log, resolved, calls>>

Finish ==
  \E r \in DOMAIN runs :
     \/ FinishRejected(r)
     \/ \E body \in FinishBodies : FinishAccepted(r, body)

\* a refresh that keeps the runtime and the finish time the Run holds
RefreshedKeepsTimes(run, updated) ==
  [f \in DOMAIN run |->
     IF f \in DOMAIN updated /\ f \notin {"runtime_seconds", "finished_at"}
     THEN updated[f] ELSE run[f]]

\* self.__dict__.update(updated_run.__dict__)
Refreshed(run, updated) ==
  [f \in DOMAIN run |-> IF f \in DOMAIN updated THEN updated[f] ELSE run[f]]

\* Run.refresh
Refresh ==
  \E r \in DOMAIN runs, ok \in BOOLEAN :
     /\ runs' = IF ok
                THEN [runs EXCEPT ![r] =
                        Refreshed(@, Run(runs[r].client, server_runs[runs[r].id]))]
                ELSE runs
     /\ last' = Op("refresh", r, <<>>, IF ok THEN "return" ELSE "raise",
                   IF ok THEN "none" ELSE "TransportError", runs[r].status,
                   <<Req("get_run", runs[r].client, runs[r].id)>>, NoBody)
     /\ UNCHANGED <<wrapper, sess, env, teams, projects, server_runs, mgr, handlers, loggers,
                    log, resolved, calls>>

\* Run.log_metric / Run.log_message / Run.get_metrics: one request each,
\* the answer returned (or the failure raised) as it is
RunRequest(op, r, names, req, ok) ==
  /\ last' = Op(op, r, names, IF ok THEN "return" ELSE "raise",
                IF ok THEN "none" ELSE "TransportError", runs[r].status,
                <<req>>, NoBody)
  /\ UNCHANGED <<wrapper, sess, env, teams, projects, server_runs, mgr, runs, handlers,
                 loggers, log, resolved, calls>>

\* the metric names and values the program logs
MetricNames == {"loss", "acc"}
MetricValues == {MetricLow, MetricHigh}

\* a log_metric that always writes at the default step
MetricReqDefaultStep(key, run_id, name, value, step) ==
  [call |-> "log", key |-> key, arg |-> run_id, name |-> name,
   value |-> value, step |-> 0]

\* TrackingClient.log_metric: POST /runs/{run_id}/log with name, value, step
MetricReq(key, run_id, name, value, step) ==
  [call |-> "log", key |-> key, arg |-> run_id, name |-> name,
   value |-> value, step |-> step]

LogMetric ==
  \E r \in DOMAIN runs, name \in MetricNames, value \in MetricValues :
     \E step \in Steps, ok \in BOOLEAN :
        RunRequest("log_metric", r, <<name, value, step>>,
                   MetricReq(runs[r].client, runs[r].id, name, value, step), ok)

LogMessage ==
  \E r \in DOMAIN runs, step \in Steps, ok \in BOOLEAN :
     RunRequest("log_message", r, <<>>,
                LogReq(runs[r].client, runs[r].id, "console_output", step), ok)

GetMetrics ==
  \E r \in DOMAIN runs, ok \in BOOLEAN :
     RunRequest("get_metrics", r, <<>>,
                Req("get_run_metrics", runs[r].client, runs[r].id), ok)

NextRun ==
  \/ OpenRun
  \/ Finish
  \/ Refresh
  \/ LogMetric
  \/ LogMessage
  \/ GetMetrics

SpecRun == Init /\ [][NextRun]_vars

(* ------------------- the log bridge (TrackingHandler) ------------------- *)
\* setup_tracking_logger(client, run.id, name), called by the program itself
\* as usage.py and gene.py do, for a run it holds
SetupTrackingLogger ==
  \E r \in DOMAIN runs, name \in SetupNames :
     /\ Len(handlers) < MaxHandlers
     /\ handlers' = Append(handlers, TrackingHandler(runs[r].client, runs[r].id))
     /\ loggers' = AttachHandler(loggers, name, Len(handlers) + 1)
     /\ last' = Op("setup_tracking_logger", Len(handlers) + 1, <<name>>,
                   "return", "none", NoneStr, <<>>, NoBody)
     /\ UNCHANGED <<wrapper, sess, env, teams, projects, server_runs, mgr, runs, log,
                    resolved, calls>>

\* what can happen to one record: it is formatted and delivered, formatted
\* and the request fails, or self.format(record) raises
EmitOutcomes == {"sent", "lost", "format_error"}

\* an emit that counts the record before formatting it
CountStepFirst(handler, outcome) ==
  [handler EXCEPT !.step_counter = @ + 1]

\* an emit that counts a record only once it has been delivered
CountStepWhenSent(handler, outcome) ==
  IF outcome = "sent" THEN [handler EXCEPT !.step_counter = @ + 1] ELSE handler

\* `self.step_counter += 1`, reached only when formatting succeeded
CountStep(handler, outcome) ==
  IF outcome = "format_error" THEN handler
  ELSE [handler EXCEPT !.step_counter = @ + 1]

\* an emit without the try/except around formatting and forwarding
EmitReturnUncaught(outcome) == IF outcome = "sent" THEN "return" ELSE "raise"

\* how TrackingHandler.emit ends: `except Exception: self.handleError(record)`
EmitReturn(outcome) == "return"

\* TrackingHandler.emit for one record reaching handler h through its logger
Emit ==
  \E name \in LoggerNames, outcome \in EmitOutcomes :
     \E i \in DOMAIN loggers[name] :
        LET h     == loggers[name][i]
            after == CountStep(handlers[h], outcome)
            reqs  == IF outcome = "format_error" THEN <<>>
                     ELSE <<LogReq(after.client, after.run_id, "console_output",
                                   after.step_counter)>>
        IN
        /\ handlers[h].step_counter < MaxStep
        /\ Len(log) < MaxLog
        /\ handlers' = [handlers EXCEPT ![h] = after]
        /\ log' = Append(log, [handler |-> h, run_id |-> after.run_id,
                               step |-> after.step_counter, outcome |-> outcome])
        /\ last' = Op("emit", h, <<name>>, EmitReturn(outcome),
                      IF outcome = "sent" THEN "none"
                      ELSE IF outcome = "lost" THEN "TransportError"
                      ELSE "FormatError",
                      NoneStr, reqs, NoBody)
        /\ UNCHANGED <<wrapper, sess, env, teams, projects, server_runs, mgr, runs, loggers,
                       resolved, calls>>

NextBridge ==
  \/ OpenRun
  \/ SetupTrackingLogger
  \/ Emit

SpecBridge == Init /\ [][NextBridge]_vars

(* ------- the wrappers: with_tracking, tracking_context, auto_track ------ *)
\* a wrapper calls tracker.initialize_client and keeps the returned logger;
\* the ValueError of a missing credential leaves the wrapper at once
CallFromWrapper(kind, pc, api_key, team_name, project_name) ==
  \/ /\ InitializeNoCredential(api_key, team_name, project_name)
     /\ wrapper' = [kind |-> kind, pc |-> "raised", logger |-> NoneStr]
  \/ \E fail \in FailPoints :
        /\ InitializeWithCredential(api_key, team_name, project_name, fail)
        /\ wrapper' = [kind |-> kind, pc |-> pc,
                       logger |-> IF fail = "none" THEN LoggerName(project_name)
                                  ELSE NoneStr]

\* the wrapper of with_tracking up to the call of the decorated function
WithTracking ==
  \E api_key \in KeyArgs :
     /\ wrapper.pc # "body"
     /\ CallFromWrapper("with_tracking", "body", api_key, "A", "P")

\* tracking_context up to its yield
TrackingContext ==
  \E api_key \in KeyArgs :
     /\ wrapper.pc # "body"
     /\ CallFromWrapper("tracking_context", "body", api_key, "A", "P")

\* auto_track_module: it passes no api_key and returns the logger
AutoTrackModule ==
  \E project_name \in ProjectNames :
     /\ wrapper.pc # "body"
     /\ CallFromWrapper("auto_track_module", "exited", NoneStr, "A", project_name)

\* a cleanup that finishes the run on the way out
ScopeCleanupFinishes(run) == [run EXCEPT !.status = "finished"]

\* what leaving does to the session's Run: `return result`, `finally: pass`
ScopeCleanup(run) == run

\* the runs after the wrapper is left
RunsAfterScope ==
  [r \in DOMAIN runs |-> IF r = mgr.run THEN ScopeCleanup(runs[r]) ELSE runs[r]]

\* tracking_context reports the exception of its block: logger is truthy
ReportsError(w, outcome) ==
  w.kind = "tracking_context" /\ outcome = "raise" /\ w.logger # NoneStr

\* the decorated function returns or raises, the block ends or raises, and
\* the wrapper has nothing to report
LeaveWrapper ==
  \E outcome \in {"return", "raise"} :
     /\ wrapper.pc = "body"
     /\ ~ReportsError(wrapper, outcome)
     /\ wrapper' = [wrapper EXCEPT !.pc = "exited"]
     /\ runs' = RunsAfterScope
     /\ last' = Op(wrapper.kind, mgr.run, <<>>, outcome,
                   IF outcome = "raise" THEN "BodyError" ELSE "none",
                   NoneStr, <<>>, NoBody)
     /\ UNCHANGED <<sess, env, teams, projects, server_runs, mgr, handlers,
                    loggers, log, resolved, calls>>

\* the block of tracking_context raises: logger.error(...) goes through the
\* handler of the logger, then the exception is re-raised
ContextError ==
  \E outcome \in EmitOutcomes :
     LET name  == wrapper.logger
         h     == loggers[name][1]
         after == CountStep(handlers[h], outcome)
         reqs  == IF outcome = "format_error" THEN <<>>
                  ELSE <<LogReq(after.client, after.run_id, "console_output",
                                after.step_counter)>>
     IN
     /\ wrapper.pc = "body"
     /\ ReportsError(wrapper, "raise")
     /\ handlers[h].step_counter < MaxStep
     /\ Len(log) < MaxLog
     /\ handlers' = [handlers EXCEPT ![h] = after]
     /\ log' = Append(log, [handler |-> h, run_id |-> after.run_id,
                            step |-> after.step_counter, outcome |-> outcome])
     /\ wrapper' = [wrapper EXCEPT !.pc = "exited"]
     /\ runs' = RunsAfterScope
     /\ last' = Op(wrapper.kind, mgr.run, <<name>>, "raise", "BodyError",
                   NoneStr, reqs, NoBody)
     /\ UNCHANGED <<sess, env, teams, projects, server_runs, mgr, loggers,
                    resolved, calls>>

NextWrapper ==
  \/ WithTracking
  \/ TrackingContext
  \/ AutoTrackModule
  \/ LeaveWrapper
  \/ ContextError

SpecWrapper == Init /\ [][NextWrapper]_vars

(* ---- two processes resolving names against one server, step by step --- *)
\* a resolver that looks at the server again before it creates
CreatesAfterRecheck(found_when_listed, listed_now, name) ==
  ~found_when_listed /\ FirstMatch(listed_now, name) = 0

\* `if not team_found:` / `if not project_found:` decide on the flag the loop
\* over the earlier listing left; nothing is listed again and nothing is locked
CreatesAfterList(found_when_listed, listed_now, name) == ~found_when_listed

\* process p calls initialize_client: client.list_teams() and the loop over it
SessListTeams(p) ==
  \E team_name \in TeamNames, project_name \in ProjectNames :
     LET idx == FirstMatch(ListTeams(teams), team_name) IN
     /\ sess[p].pc = "idle"
     /\ sess' = [sess EXCEPT ![p] =
                   [@ EXCEPT !.pc = "teams_listed",
                             !.team_name = team_name,
                             !.project_name = project_name,
                             !.team_found = ~NeedsCreate(idx),
                             !.team_id = IF NeedsCreate(idx) THEN None
                                         ELSE ListTeams(teams)[idx].id]]
     /\ UNCHANGED <<wrapper, env, teams, projects, server_runs, mgr, runs,
                    handlers, loggers, log, resolved, calls, last>>

\* process p found no team of the name in its listing: client.create_team
SessCreateTeam(p) ==
  LET name   == sess[p].team_name
      now    == ListTeams(teams)
      create == CreatesAfterList(sess[p].team_found, now, name)
      team   == CreateTeam(teams, name)
  IN
  /\ sess[p].pc = "teams_listed"
  /\ ~sess[p].team_found
  /\ teams' = IF create THEN Append(teams, team) ELSE teams
  /\ sess' = [sess EXCEPT ![p] =
                [@ EXCEPT !.pc = "team",
                          !.team_id = IF create THEN team.id
                                      ELSE now[FirstMatch(now, name)].id]]
  /\ UNCHANGED <<wrapper, env, projects, server_runs, mgr, runs, handlers,
                 loggers, log, resolved, calls, last>>

\* process p holds a team_id: client.list_projects(team_id) and the loop
SessListProjects(p) ==
  LET plist == ListProjects(projects, sess[p].team_id)
      idx   == FirstMatch(plist, sess[p].project_name)
  IN
  /\ \/ sess[p].pc = "team"
     \/ sess[p].pc = "teams_listed" /\ sess[p].team_found
  /\ sess' = [sess EXCEPT ![p] =
                [@ EXCEPT !.pc = "projects_listed",
                          !.project_found = ~NeedsCreate(idx),
                          !.project_id = IF NeedsCreate(idx) THEN None
                                         ELSE plist[idx].id]]
  /\ UNCHANGED <<wrapper, env, teams, projects, server_runs, mgr, runs,
                 handlers, loggers, log, resolved, calls, last>>

\* process p found no project of the name in its listing: create_project
SessCreateProject(p) ==
  LET name    == sess[p].project_name
      now     == ListProjects(projects, sess[p].team_id)
      create  == CreatesAfterList(sess[p].project_found, now, name)
      project == CreateProject(projects, sess[p].team_id, name)
  IN
  /\ sess[p].pc = "projects_listed"
  /\ ~sess[p].project_found
  /\ projects' = IF create THEN Append(projects, project) ELSE projects
  /\ sess' = [sess EXCEPT ![p] =
                [@ EXCEPT !.pc = "project",
                          !.project_id = IF create THEN project.id
                                         ELSE now[FirstMatch(now, name)].id]]
  /\ UNCHANGED <<wrapper, env, teams, server_runs, mgr, runs, handlers,
                 loggers, log, resolved, calls, last>>

NextRace ==
  \E p \in Sessions :
     \/ SessListTeams(p)
     \/ SessCreateTeam(p)
     \/ SessListProjects(p)
     \/ SessCreateProject(p)

SpecRace == Init /\ [][NextRace]_vars

(* ============================== claims ================================== *)
IsInitialize(op) == op.op = "initialize_client"

\* the call got past team resolution: it went on to list the team's projects
TeamResolved(op) == IsInitialize(op) /\ "list_projects" \in Calls(op.reqs)

\* the call got past project resolution: it went on to open a run
ProjectResolved(op) == IsInitialize(op) /\ "init_run" \in Calls(op.reqs)

Listed(xs, name) == \E i \in DOMAIN xs : xs[i].name = name

\* the team a project id belongs to on the server
TeamOfProject(ps, project_id) ==
  IF \E i \in DOMAIN ps : ps[i].id = project_id
  THEN (CHOOSE p \in { ps[i] : i \in DOMAIN ps } : p.id = project_id).team_id
  ELSE None

\* C1: team resolution is idempotent. Whenever an initialize_client call
\* resolves a team name that an earlier call already resolved, it ends with the
\* team_id the earlier call ended with and issues no create_team request; a
\* create_team request is issued only when no listed team has that name, and
\* the id a call ends with is the id of a listed team of that name.
C1_TeamResolutionIdempotent ==
  [][ TeamResolved(last') /\ calls' = calls + 1 =>
        LET name == last'.names[2] IN
        /\ resolved.team[name] # None =>
              /\ mgr'.team_id = resolved.team[name]
              /\ "create_team" \notin Calls(last'.reqs)
        /\ "create_team" \in Calls(last'.reqs) <=> ~Listed(teams, name)
        /\ \E i \in DOMAIN teams' :
              teams'[i].name = name /\ teams'[i].id = mgr'.team_id
    ]_vars

\* a second call resolved the name the first call created: same id, no create
C1_Witness ==
  /\ calls = 2
  /\ TeamResolved(last)
  /\ "create_team" \notin Calls(last.reqs)
  /\ Len(teams) = 1
  /\ mgr.team_id = teams[1].id
  /\ teams[1].name = last.names[2]

\* C2: project resolution is scoped to the team resolved in the same call.
\* Every list_projects and create_project request of a call names the team_id
\* the call resolved; the project_id a call ends with belongs to that team and
\* carries the requested name; and a call that repeats an earlier resolution of
\* the same team and project name ends with the same project_id and issues no
\* create_project request.
C2_ProjectScopedToTeam ==
  [][ TeamResolved(last') /\ calls' = calls + 1 =>
        LET tname == last'.names[2]
            pname == last'.names[3]
        IN
        /\ \A i \in DOMAIN last'.reqs :
              last'.reqs[i].call \in {"list_projects", "create_project"} =>
                last'.reqs[i].arg = mgr'.team_id
        /\ ProjectResolved(last') =>
              /\ TeamOfProject(projects', mgr'.project_id) = mgr'.team_id
              /\ \E i \in DOMAIN projects' :
                    /\ projects'[i].id = mgr'.project_id
                    /\ projects'[i].name = pname
              /\ resolved.project[<<tname, pname>>] # None =>
                    /\ mgr'.project_id = resolved.project[<<tname, pname>>]
                    /\ "create_project" \notin Calls(last'.reqs)
    ]_vars

\* a project of the same name exists in another team, and the call created
\* its own project in its own team instead of reusing it
C2_Witness ==
  /\ ProjectResolved(last)
  /\ Len(projects) = 2
  /\ projects[1].name = projects[2].name
  /\ projects[1].team_id # projects[2].team_id
  /\ mgr.project_id = projects[2].id
  /\ mgr.team_id = projects[2].team_id
  /\ "create_project" \in Calls(last.reqs)

\* C3: the local Run status follows running -> finished. A Run built from a
\* successful init has status "running"; a finish that returns leaves it
\* "finished"; and no operation moves a finished Run to any other status.
C3_RunStatusMachine ==
  [][ /\ \A r \in DOMAIN runs' :
            /\ runs'[r].status \in {"running", "finished"}
            /\ r \notin DOMAIN runs => runs'[r].status = "running"
            /\ r \in DOMAIN runs /\ runs[r].status = "finished" =>
                 runs'[r].status = "finished"
      /\ last'.op = "finish" /\ last'.ret = "return" =>
            runs'[last'.obj].status = "finished"
    ]_vars

\* a finished Run was refreshed from the server and is still finished
C3_Witness ==
  /\ last.op = "refresh"
  /\ last.ret = "return"
  /\ last.pre = "finished"
  /\ runs[last.obj].status = "finished"

\* C4 as stated: after every finish that returns, runtime_seconds is populated
C4_RuntimeAlwaysPopulated ==
  last.op = "finish" /\ last.ret = "return" =>
    runs[last.obj].runtime_seconds # None

\* C4, amended: after every finish that returns, the Run's status is
\* "finished" and its runtime_seconds is the runtime_seconds entry of the
\* response body, which is None when the body carries no such entry.
C4_RuntimeMirrorsResponse ==
  last.op = "finish" /\ last.ret = "return" =>
    /\ runs[last.obj].status = "finished"
    /\ runs[last.obj].runtime_seconds = Get(last.resp, "runtime_seconds")
    /\ "runtime_seconds" \in DOMAIN last.resp =>
         runs[last.obj].runtime_seconds # None

\* a finish answered with a runtime: the Run caches it
C4_Witness ==
  /\ last.op = "finish"
  /\ last.ret = "return"
  /\ "runtime_seconds" \in DOMAIN last.resp
  /\ runs[last.obj].runtime_seconds = ServerRuntime

\* C5 as stated: a finish on an already finished Run never raises
C5_SecondFinishNeverRaises ==
  last.op = "finish" /\ last.pre = "finished" => last.ret # "raise"

\* C5, amended: a finish on an already finished Run re-issues exactly one
\* finish request for its run id; it returns without raising exactly when the
\* server answers 2xx, a rejection propagates as the transport failure, and
\* either way the Run stays finished.
C5_SecondFinishFollowsAnswer ==
  last.op = "finish" /\ last.pre = "finished" =>
    /\ Len(last.reqs) = 1
    /\ last.reqs[1].call = "finish_run"
    /\ last.reqs[1].arg = runs[last.obj].id
    /\ last.ret = "raise" <=> last.err = "TransportError"
    /\ last.ret = "return" <=> last.err = "none"
    /\ runs[last.obj].status = "finished"

\* a second finish that the server rejected
C5_Witness ==
  /\ last.op = "finish"
  /\ last.pre = "finished"
  /\ last.err = "TransportError"
  /\ last.ret = "raise"

\* the emissions handler h received, in order
EmissionsOf(h) == SelectSeq(log, LAMBDA e : e.handler = h)

\* the records handler h passed to client.log_message, in order
SentBy(h) == SelectSeq(log, LAMBDA e : e.handler = h /\ e.outcome # "format_error")

\* the records the bridge passed to client.log_message for one run, in order
SentFor(run_id) ==
  SelectSeq(log, LAMBDA e : e.run_id = run_id /\ e.outcome # "format_error")

\* C6 as stated: N emissions through one handler produce N records, 1..N
C6_NEmissionsNRecords ==
  \A h \in DOMAIN handlers :
     /\ Len(SentBy(h)) = Len(EmissionsOf(h))
     /\ \A i \in DOMAIN SentBy(h) : SentBy(h)[i].step = i

\* C6, amended: the records one handler forwards carry the steps 1, 2, ..., k
\* in emission order, where k is its step_counter and counts the emissions
\* whose formatting succeeded; an emission whose formatting raises forwards
\* nothing and uses no step.
C6_ForwardedStepsAreOneToK ==
  \A h \in DOMAIN handlers :
     /\ Len(SentBy(h)) = handlers[h].step_counter
     /\ \A i \in DOMAIN SentBy(h) : SentBy(h)[i].step = i
     /\ Len(SentBy(h)) <= Len(EmissionsOf(h))

\* one handler forwarded steps 1 and 2 around an emission that failed to format
C6_Witness ==
  \E h \in DOMAIN handlers :
     /\ Len(EmissionsOf(h)) = 3
     /\ EmissionsOf(h)[2].outcome = "format_error"
     /\ Len(SentBy(h)) = 2
     /\ SentBy(h)[2].step = 2

\* C7: for every run, the steps of the console_output records the bridge
\* sends are strictly increasing over the whole life of the run.
C7_StepsIncreasePerRun ==
  \A id \in DOMAIN server_runs :
     \A i, j \in DOMAIN SentFor(id) :
        i < j => SentFor(id)[i].step < SentFor(id)[j].step

\* C8: TrackingHandler.emit never raises. Whether the record was delivered,
\* the request failed or formatting raised, emit returns; a failure leaves the
\* handler attached to its logger, with its counter where the failed emission
\* left it, so that later emissions proceed.
C8_EmitNeverRaises ==
  last.op = "emit" =>
    /\ last.ret = "return"
    /\ \E i \in DOMAIN loggers[last.names[1]] :
          loggers[last.names[1]][i] = last.obj
    /\ handlers[last.obj].step_counter = Len(SentBy(last.obj))

\* a request failed during one emission and the next emission on the same
\* handler was delivered
C8_Witness ==
  /\ last.op = "emit"
  /\ last.err = "none"
  /\ \E i \in DOMAIN EmissionsOf(last.obj) :
        /\ i < Len(EmissionsOf(last.obj))
        /\ EmissionsOf(last.obj)[i].outcome = "lost"

\* C9: initialize_client never raises; every failure ends in a None return
C9_InitializeNeverRaises ==
  IsInitialize(last) => last.ret \in {"return", "return_none"}

\* C10: with no credential the call fails with a configuration error before
\* any request is issued and before any cached field is modified, and every
\* request that is issued carries a non-empty credential
C10_RequestsCarryCredential ==
  [][ /\ IsInitialize(last') /\ MissingCredential(last'.names[1], env) =>
            /\ last'.err = "ValueError"
            /\ last'.reqs = <<>>
            /\ mgr' = mgr
      /\ \A i \in DOMAIN last'.reqs : ~Falsy(last'.reqs[i].key)
    ]_vars

\* C10, the part that holds: a call that finds no credential (argument
\* omitted, environment value unset or empty) ends with the ValueError, issues
\* no request and leaves every cached field and the server as they were; a
\* call that takes its key from the environment sends a non-empty key.
C10_FailsFastWithoutCredential ==
  [][ IsInitialize(last') =>
        /\ MissingCredential(last'.names[1], env) =>
              /\ last'.err = "ValueError"
              /\ last'.reqs = <<>>
              /\ mgr' = mgr
              /\ <<teams', projects', server_runs'>> =
                   <<teams, projects, server_runs>>
        /\ last'.names[1] = NoneStr =>
              \A i \in DOMAIN last'.reqs : ~Falsy(last'.reqs[i].key)
    ]_vars

\* the init_run requests among the requests of one call
InitRunRequests(reqs) == SelectSeq(reqs, LAMBDA q : q.call = "init_run")

\* C11: each successful initialize_client call opens a new Run. A call that
\* returns its logger issued exactly one init_run request, whatever the
\* singleton cached before; the server holds one more run, whose id differs
\* from the id of every run opened before; and the manager's current run is
\* the Run built from that new record.
C11_EachCallOpensNewRun ==
  [][ IsInitialize(last') /\ last'.ret = "return" /\ calls' = calls + 1 =>
        /\ Len(InitRunRequests(last'.reqs)) = 1
        /\ Len(server_runs') = Len(server_runs) + 1
        /\ \A i \in DOMAIN server_runs :
              server_runs[i].id # server_runs'[Len(server_runs')].id
        /\ Len(runs') = Len(runs) + 1
        /\ mgr'.run = Len(runs')
        /\ runs'[mgr'.run].id = server_runs'[Len(server_runs')].id
        /\ \A r \in DOMAIN runs : runs'[r] = runs[r] /\ runs[r].id # runs'[mgr'.run].id
    ]_vars

\* two successful calls with identical arguments: one team, one project,
\* two distinct runs, the manager holding the second
C11_Witness ==
  /\ calls = 2
  /\ IsInitialize(last) /\ last.ret = "return"
  /\ Len(teams) = 1 /\ Len(projects) = 1
  /\ Len(runs) = 2
  /\ runs[1].id # runs[2].id
  /\ runs[1].project_id = runs[2].project_id
  /\ mgr.run = 2

\* the step on which a wrapper is left with a session behind it
LeavesWrapper(w, w2) ==
  \/ w.pc = "body" /\ w2.pc = "exited"
  \/ w2.kind = "auto_track_module" /\ w2.pc = "exited" /\ calls' = calls + 1

\* C12: no run is finished on scope exit. No step of with_tracking,
\* tracking_context or auto_track_module issues a finish request; every run
\* stays "running" locally and on the server; and when the decorated function
\* returns or raises, or the block ends or raises, the singleton caches what
\* it cached inside the scope, its Run still "running".
C12_NoAutoFinish ==
  [][ /\ "finish_run" \notin Calls(last'.reqs)
      /\ \A i \in DOMAIN server_runs' : server_runs'[i].status = "running"
      /\ \A r \in DOMAIN runs' : runs'[r].status = "running"
      /\ LeavesWrapper(wrapper, wrapper') =>
            /\ mgr'.run # None => runs'[mgr'.run].status = "running"
            /\ wrapper.pc = "body" => mgr' = mgr /\ runs' = runs
            /\ wrapper'.logger # NoneStr =>
                  /\ mgr'.run # None
                  /\ mgr'.logger = wrapper'.logger
    ]_vars

\* a tracking_context block raised after a successful set-up: the error
\* record was forwarded, the exception re-raised, the run left running
C12_Witness ==
  /\ last.op = "tracking_context"
  /\ last.ret = "raise"
  /\ Len(last.reqs) = 1
  /\ wrapper.pc = "exited"
  /\ mgr.run # None
  /\ runs[mgr.run].status = "running"
  /\ server_runs[runs[mgr.run].id].status = "running"

\* C13: Run.log_metric never rejects a write locally. Whatever the step and
\* whether the Run is locally "running" or "finished", the call issues exactly
\* one log request, carrying the Run's client key, the Run's own id and the
\* given name, value and step unchanged; it raises only when that request
\* fails; and it leaves every local Run as it was.
C13_LogMetricForwardsUnchanged ==
  [][ last'.op = "log_metric" =>
        /\ Len(last'.reqs) = 1
        /\ last'.reqs[1] =
              [call |-> "log", key |-> runs[last'.obj].client,
               arg |-> runs[last'.obj].id, name |-> last'.names[1],
               value |-> last'.names[2], step |-> last'.names[3]]
        /\ last'.pre = runs[last'.obj].status
        /\ last'.ret = "raise" <=> last'.err = "TransportError"
        /\ runs' = runs
    ]_vars

\* a metric written at step 0 to a Run that is already finished
C13_Witness ==
  /\ last.op = "log_metric"
  /\ last.pre = "finished"
  /\ runs[last.obj].status = "finished"
  /\ last.names[3] = 0
  /\ last.ret = "return"
  /\ last.reqs[1].step = 0
  /\ last.reqs[1].value = MetricHigh

\* process p is past its team resolution / its project resolution
PastTeam(p) == sess[p].pc \in {"team", "projects_listed", "project"}
PastProject(p) == sess[p].pc = "project"

\* the server's entities of one name
TeamsNamed(name) == { i \in DOMAIN teams : teams[i].name = name }
ProjectsNamed(team_id, name) ==
  { i \in DOMAIN projects :
      projects[i].team_id = team_id /\ projects[i].name = name }

\* C14: two processes that resolve the same new name concurrently both
\* create it. Whenever two processes are past resolving the same team name
\* and neither found it in its own listing, each has issued its create: the
\* server holds two teams of that name and the processes hold different
\* team_ids; likewise for the same project name in the same team. Nothing in
\* the client stops the second create.
C14_RacingResolversBothCreate ==
  \A p, q \in Sessions :
     p # q =>
       /\ ( /\ PastTeam(p) /\ PastTeam(q)
            /\ sess[p].team_name = sess[q].team_name
            /\ ~sess[p].team_found /\ ~sess[q].team_found )
          => /\ sess[p].team_id # sess[q].team_id
             /\ Cardinality(TeamsNamed(sess[p].team_name)) >= 2
       /\ ( /\ PastProject(p) /\ PastProject(q)
            /\ sess[p].team_id = sess[q].team_id
            /\ sess[p].project_name = sess[q].project_name
            /\ ~sess[p].project_found /\ ~sess[q].project_found )
          => /\ sess[p].project_id # sess[q].project_id
             /\ Cardinality(ProjectsNamed(sess[p].team_id,
                                          sess[p].project_name)) >= 2

\* both processes listed before either created: two teams of one name
C14_Witness ==
  /\ PastTeam(1) /\ PastTeam(2)
  /\ ~sess[1].team_found /\ ~sess[2].team_found
  /\ Len(teams) = 2
  /\ teams[1].name = teams[2].name
  /\ teams[1].id # teams[2].id
  /\ sess[1].team_id # sess[2].team_id

\* C15: a failed finish changes nothing locally. When the finish request is
\* answered non-2xx or the network fails, Run.finish raises that failure
\* after the one request, and every local Run, its status and runtime_seconds
\* included, is as it was; a finish changes the status of its Run only when
\* it returns.
C15_FailedFinishLeavesRun ==
  [][ last'.op = "finish" =>
        /\ Len(last'.reqs) = 1
        /\ last'.reqs[1].call = "finish_run"
        /\ last'.err = "TransportError" =>
              /\ last'.ret = "raise"
              /\ runs' = runs
              /\ server_runs' = server_runs
        /\ runs'[last'.obj].status # runs[last'.obj].status =>
              /\ last'.ret = "return"
              /\ runs'[last'.obj].status = "finished"
    ]_vars

\* the finish of a running Run was rejected: the Run is still running and
\* has no runtime
C15_Witness ==
  /\ last.op = "finish"
  /\ last.err = "TransportError"
  /\ last.ret = "raise"
  /\ last.pre = "running"
  /\ runs[last.obj].status = "running"
  /\ runs[last.obj].runtime_seconds = None

\* C16: a successful refresh overwrites the Run with the server's record.
\* After a refresh that returns, every field of the Run other than its client
\* (status, project_id, runtime_seconds, finished_at, id) equals that field of
\* the server's current record for the Run's id, whatever the Run held
\* before; the Run has the id and the client it had; no other Run changes.
C16_RefreshMirrorsServer ==
  [][ last'.op = "refresh" /\ last'.ret = "return" =>
        LET r   == last'.obj
            rec == server_runs'[runs[r].id]
        IN
        /\ \A f \in DOMAIN rec : runs'[r][f] = rec[f]
        /\ DOMAIN runs'[r] = DOMAIN rec \cup {"client"}
        /\ runs'[r].id = runs[r].id
        /\ runs'[r].client = runs[r].client
        /\ \A q \in DOMAIN runs : q # r => runs'[q] = runs[q]
        /\ server_runs' = server_runs
    ]_vars

\* a finished Run, refreshed: it holds the finish time, which only the
\* server's record carries
C16_Witness ==
  /\ last.op = "refresh"
  /\ last.ret = "return"
  /\ last.pre = "finished"
  /\ runs[last.obj].finished_at = ServerFinishedAt
  /\ runs[last.obj].runtime_seconds = ServerRuntime
  /\ runs[last.obj] = Run(runs[last.obj].client, server_runs[runs[last.obj].id])

\* the logger a successful initialize_client call returned for the run it
\* opened: the logger named after the project the run was opened in
HandleOf(run_id) == LoggerName(projects[server_runs[run_id].project_id].name)

\* C17: a logger handle returned by a successful initialize_client call
\* keeps forwarding to the run opened by that call, whatever calls follow:
\* for every handler a call attached, the logger that call returned still
\* forwards through that handler, to that run.
C17_HandleKeepsItsRun ==
  \A h \in DOMAIN handlers :
     LET handle == HandleOf(handlers[h].run_id) IN
     /\ loggers[handle] # <<>>
     /\ \A i \in DOMAIN loggers[handle] :
           handlers[loggers[handle][i]].run_id = handlers[h].run_id

\* the cached fields of a manager describe one session
SessionConsistent(m) ==
  m.run # None =>
    /\ runs'[m.run].project_id = m.project_id
    /\ TeamOfProject(projects', m.project_id) = m.team_id
    /\ m.logger # NoneStr
    /\ loggers'[m.logger] # <<>>
    /\ \A i \in DOMAIN loggers'[m.logger] :
          handlers'[loggers'[m.logger][i]].run_id = runs'[m.run].id

\* C18: the cached session stays consistent across failures. After every
\* call, if a run is cached it was opened in the cached project_id, that
\* project belongs to the cached team_id and the cached logger forwards to
\* the cached run; and a call that returns None leaves client, team_id,
\* project_id, run and logger as they were.
C18_CachedSessionConsistent ==
  [][ IsInitialize(last') =>
        /\ SessionConsistent(mgr')
        /\ last'.ret = "return_none" => mgr' = mgr
    ]_vars

\* the records of handler h that reached the server, in order
DeliveredBy(h) == SelectSeq(log, LAMBDA e : e.handler = h /\ e.outcome = "sent")

\* every emission handler h received was formatted
AllFormatted(h) ==
  \A i \in DOMAIN EmissionsOf(h) : EmissionsOf(h)[i].outcome # "format_error"

\* C19: a failed forwarding attempt consumes its step and is not retried.
\* After k emit calls on one TrackingHandler, all formatted, step_counter is
\* k whether the requests succeeded or failed; the i-th emission carried step
\* i in its one request; so the steps of the delivered records are strictly
\* increasing, lie in 1..k, and skip the step of every failed emission.
C19_FailedEmitConsumesStep ==
  /\ last.op = "emit" => Len(last.reqs) <= 1
  /\ \A h \in DOMAIN handlers :
        AllFormatted(h) =>
          LET all  == EmissionsOf(h)
              k    == Len(all)
              sent == DeliveredBy(h)
          IN
          /\ handlers[h].step_counter = k
          /\ \A i \in DOMAIN all : all[i].step = i
          /\ \A i \in DOMAIN sent : sent[i].step \in 1..k
          /\ \A i, j \in DOMAIN sent : i < j => sent[i].step < sent[j].step
          /\ \A i \in DOMAIN all :
                all[i].outcome = "lost" =>
                  \A j \in DOMAIN sent : sent[j].step # i

\* one handler: the first request failed, the second was delivered as step 2
C19_Witness ==
  \E h \in DOMAIN handlers :
     /\ Len(EmissionsOf(h)) = 2
     /\ EmissionsOf(h)[1].outcome = "lost"
     /\ EmissionsOf(h)[2].outcome = "sent"
     /\ handlers[h].step_counter = 2
     /\ Len(DeliveredBy(h)) = 1
     /\ DeliveredBy(h)[1].step = 2
====
